---- MODULE Spec2Model ----
(***************************************************************************)
(* Model of workshop_template.ipynb, the only source file of               *)
(* NeuroPawn-Workshop.  The notebook has one markdown cell (the problem    *)
(* statement) and one code cell.  The model is a Jupyter kernel executing  *)
(* that code cell statement by statement: the kernel's user namespace, its *)
(* module cache, the execution counter, and the state a workshop solution  *)
(* would touch (board session, acquired data, pipeline, trained model).    *)
(* The statement interpreter is general (imports, assignments,             *)
(* definitions, calls); what the cell does follows from CellSource, the    *)
(* cell's text.                                                            *)
(***************************************************************************)
EXTENDS Integers, Sequences, FiniteSets, TLC

\* Bound on the kernel's execution counter (In [n]); the kernel itself has none.
MaxExec == 5

\* Bound on the number of samples a statement can have acquired.
MaxSamples == 2

\* Python distributions the cell's imports need; each may or may not be
\* installed in the kernel's environment.
Distributions == {"numpy", "brainflow"}

\* The distribution that provides a module (the top-level package name).
Distribution(module) ==
    IF module = "numpy" THEN "numpy" ELSE "brainflow"

\* A statement of a code cell.
\*   kind   : "import" (import m as a), "from_import" (from m import a, b),
\*            "assign" (a = ...), "def" (def/class a), "call" (f(...))
\*   module : the module an import names ("" otherwise)
\*   binds  : the names the statement binds in the namespace
\*   target : for a call, the state it acts on ("" otherwise)
Stmt(kind, module, binds, target) ==
    [kind |-> kind, module |-> module, binds |-> binds, target |-> target]

\* The cell of the workshop template followed by the first steps of a
\* solution: a board object, a session, one read of the board's data.
CellSourceWithAcquisition ==
    << Stmt("import", "numpy", {"np"}, ""),
       Stmt("from_import", "brainflow.board_shim",
            {"BoardShim", "BrainFlowInputParams", "BoardIds"}, ""),
       Stmt("from_import", "brainflow.data_filter",
            {"DataFilter", "FilterTypes", "DetrendOperations", "WindowOperations"}, ""),
       Stmt("assign", "", {"board"}, ""),
       Stmt("call", "", {}, "session"),
       Stmt("call", "", {}, "buffer") >>

\* The source of the notebook's code cell, one entry per statement.
CellSource ==
    << Stmt("import", "numpy", {"np"}, ""),
       Stmt("from_import", "brainflow.board_shim",
            {"BoardShim", "BrainFlowInputParams", "BoardIds"}, ""),
       Stmt("from_import", "brainflow.data_filter",
            {"DataFilter", "FilterTypes", "DetrendOperations", "WindowOperations"}, "") >>

\* The notebook's cells in order: the markdown cell runs nothing.
Cells == << [cell_type |-> "markdown", source |-> << >>],
            [cell_type |-> "code", source |-> CellSource] >>

\* Indices of the cells the kernel can execute.
CodeCells == {i \in DOMAIN Cells : Cells[i].cell_type = "code"}

IsImport(s) == s.kind \in {"import", "from_import"}

\* Names bound by the import statements of a statement list.
ImportedNames(src) ==
    UNION {src[i].binds : i \in {j \in DOMAIN src : IsImport(src[j])}}

VARIABLES
    installed,        \* distributions installed in the kernel's environment
    sys_modules,      \* modules the kernel process has loaded
    namespace,        \* names bound in the kernel's user namespace
    running,          \* index of the cell being executed, 0 when idle
    pc,               \* index of the next statement of the running cell, 0 when idle
    executed,         \* kinds of the statements executed by the current/last run
    status,           \* "none", "running", "ok", "error" : result of the current/last run
    execution_count,  \* the kernel's execution counter
    session,          \* board session: "closed", "prepared"
    buffer,           \* number of samples acquired from the board
    pipeline,         \* "not_built", "built"
    model             \* "untrained", "trained"

vars == << installed, sys_modules, namespace, running, pc, executed, status,
           execution_count, session, buffer, pipeline, model >>

external == << session, buffer, pipeline, model >>

\* A fresh kernel: nothing imported, nothing run (execution_count is null
\* in the notebook file), no session, no data, no pipeline, no model.
Init ==
    /\ installed \in SUBSET Distributions
    /\ sys_modules = {}
    /\ namespace = {}
    /\ running = 0
    /\ pc = 0
    /\ executed = << >>
    /\ status = "none"
    /\ execution_count = 0
    /\ session = "closed"
    /\ buffer = 0
    /\ pipeline = "not_built"
    /\ model = "untrained"

\* The user runs a code cell on an idle kernel.
RunCell(c) ==
    /\ pc = 0
    /\ c \in CodeCells
    /\ execution_count < MaxExec
    /\ execution_count' = execution_count + 1
    /\ executed' = << >>
    /\ IF Len(Cells[c].source) = 0
         THEN /\ running' = 0 /\ pc' = 0 /\ status' = "ok"
         ELSE /\ running' = c /\ pc' = 1 /\ status' = "running"
    /\ UNCHANGED << installed, sys_modules, namespace, external >>

\* The statement the kernel executes next.
Current == Cells[running].source[pc]

\* An import fails when its distribution is not installed.
CanExecute(s) == IsImport(s) => Distribution(s.module) \in installed

\* The kernel moves past the statement just executed.
Advance ==
    IF pc = Len(Cells[running].source)
      THEN /\ pc' = 0 /\ running' = 0 /\ status' = "ok"
      ELSE /\ pc' = pc + 1 /\ UNCHANGED << running, status >>

\* One statement of the running cell executes.
ExecStmt ==
    /\ pc > 0
    /\ CanExecute(Current)
    /\ executed' = Append(executed, Current.kind)
    /\ namespace' = namespace \cup Current.binds
    /\ sys_modules' = IF IsImport(Current)
                        THEN sys_modules \cup {Current.module}
                        ELSE sys_modules
    /\ session' = IF Current.kind = "call" /\ Current.target = "session"
                    THEN "prepared" ELSE session
    /\ buffer' = IF Current.kind = "call" /\ Current.target = "buffer"
                      /\ buffer < MaxSamples
                   THEN buffer + 1 ELSE buffer
    /\ pipeline' = IF Current.kind = "call" /\ Current.target = "pipeline"
                     THEN "built" ELSE pipeline
    /\ model' = IF Current.kind = "call" /\ Current.target = "model"
                  THEN "trained" ELSE model
    /\ Advance
    /\ UNCHANGED << installed, execution_count >>

\* An import of a module that is not installed raises ModuleNotFoundError:
\* the run ends, the names bound so far stay bound.
ImportFails ==
    /\ pc > 0
    /\ ~CanExecute(Current)
    /\ pc' = 0
    /\ running' = 0
    /\ status' = "error"
    /\ UNCHANGED << installed, sys_modules, namespace, executed,
                    execution_count, external >>

\* The user interrupts the kernel between two statements.
Interrupt ==
    /\ pc > 0
    /\ pc' = 0
    /\ running' = 0
    /\ status' = "error"
    /\ UNCHANGED << installed, sys_modules, namespace, executed,
                    execution_count, external >>

\* The user restarts the kernel: a new process, with nothing of the old one.
RestartKernel ==
    /\ execution_count > 0
    /\ sys_modules' = {}
    /\ namespace' = {}
    /\ running' = 0
    /\ pc' = 0
    /\ executed' = << >>
    /\ status' = "none"
    /\ execution_count' = 0
    /\ session' = "closed"
    /\ buffer' = 0
    /\ pipeline' = "not_built"
    /\ model' = "untrained"
    /\ UNCHANGED installed

Next ==
    \/ \E c \in DOMAIN Cells : RunCell(c)
    \/ ExecStmt
    \/ ImportFails
    \/ Interrupt
    \/ RestartKernel

Spec == Init /\ [][Next]_vars

TypeOK ==
    /\ installed \subseteq Distributions
    /\ running \in {0} \cup CodeCells
    /\ pc \in 0..Len(CellSource)
    /\ status \in {"none", "running", "ok", "error"}
    /\ execution_count \in 0..MaxExec
    /\ (pc = 0) <=> (running = 0)
    /\ (status = "running") <=> (pc > 0)

\* The run of the code cell has completed without an error.
Completed == status = "ok" /\ pc = 0

\* Every statement the run executed is an import statement.
OnlyImports == \A i \in DOMAIN executed : executed[i] \in {"import", "from_import"}

\* No session, no acquired data, no pipeline, no model.
ExternalUntouched ==
    /\ session = "closed"
    /\ buffer = 0
    /\ pipeline = "not_built"
    /\ model = "untrained"

\* The names the cell's three import statements bind.
TemplateNames ==
    {"np", "BoardShim", "BrainFlowInputParams", "BoardIds",
     "DataFilter", "FilterTypes", "DetrendOperations", "WindowOperations"}

\* C10 as stated: the code cell is two import statements and nothing else;
\* it binds only imported names and leaves session, buffer, pipeline and
\* model state as they were.
C10_TwoImports ==
    /\ Completed => (Len(executed) = 2 /\ OnlyImports)
    /\ OnlyImports
    /\ namespace \subseteq TemplateNames
    /\ ExternalUntouched

\* C10 (amended): the code cell is three import statements and nothing
\* else: a completed run has executed exactly three statements, all of them
\* imports, and has bound exactly the imported names; at every point of
\* every run only imported names are bound, only imported modules are
\* loaded, and no board session is open, no sample acquired, no pipeline
\* built and no model trained.
C10_ThreeImportsOnly ==
    /\ Completed => /\ Len(executed) = 3
                    /\ namespace = TemplateNames
                    /\ Cardinality(sys_modules) = 3
    /\ OnlyImports
    /\ namespace \subseteq TemplateNames
    /\ sys_modules \subseteq {"numpy", "brainflow.board_shim", "brainflow.data_filter"}
    /\ ExternalUntouched

\* A completed run of the cell in an environment with both distributions,
\* not the first run of this kernel.
C10_Witness ==
    /\ Completed
    /\ execution_count >= 2
    /\ installed = Distributions
    /\ Len(executed) = Len(CellSource)
    /\ namespace = ImportedNames(CellSource)
====
